---- MODULE Spec2Model ----
(***************************************************************************)
(* Model of the live777 developer utilities:                               *)
(*   records/server.py        static file server with CORS headers         *)
(*   test_liveion_udp.py      UDP listener / sender for the bridge         *)
(*   tests/udp_control_test.py  UDP control test tool                      *)
(* One run of the model is one run of one of the three programs.           *)
(***************************************************************************)
EXTENDS Integers, Sequences, FiniteSets, TLC

\* ------------------------------------------------------------------ bounds
MaxRequests == 2
MaxDatagrams == 2
MaxInputs == 1
MaxCommands == 2
MaxCount == 3

VARIABLES
    prog,       \* which program this run executes
    served,     \* server.py: handled requests, each the handler object at the end
    argv1,      \* test_liveion_udp.py: sys.argv[1] ("absent" when missing)
    mainpc,     \* test_liveion_udp.py: position of the main thread
    threads,    \* test_liveion_udp.py: threads started by main, each [target, daemon]
    exited,     \* test_liveion_udp.py: the interpreter has exited
    socks,      \* test_liveion_udp.py: number of sockets created so far
    lis,        \* test_liveion_udp.py: udp_listener activation
    snd,        \* test_liveion_udp.py: udp_sender / send_test_commands activation
    peer,       \* udp_listener activation of a second process (another host)
    net,        \* datagrams queued at the two listeners' sockets
    args,       \* udp_control_test.py: parsed command line
    ctl         \* udp_control_test.py: position, sockets, datagrams, output

vars == <<prog, served, argv1, mainpc, threads, exited, socks, lis, snd, peer, net, args, ctl>>

serverVars == <<served>>
liveionVars == <<argv1, mainpc, threads, exited, socks, lis, snd, peer, net>>
controlVars == <<args, ctl>>

\* ===================================================== records/server.py
AllowedOrigin == "https://reference.dashif.org"
Origins == {"absent", AllowedOrigin, "https://evil.example"}
Commands == {"GET", "HEAD", "OPTIONS"}
ExistingPaths == {"/a.mpd"}
Paths == ExistingPaths \cup {"/missing"}

\* The handler object at the start of a request: request line and headers
\* parsed, nothing written yet.
NewHandler(command, path, origin) ==
    [command |-> command, path |-> path, origin |-> origin,
     status |-> <<>>, headers |-> <<>>, ended |-> 0, body |-> "none", fs |-> FALSE]

send_header(self, name, value) ==
    [self EXCEPT !.headers = Append(@, <<name, value>>)]

send_response(self, code) ==
    send_header(send_header([self EXCEPT !.status = Append(@, code)],
                            "Server", "SimpleHTTP"), "Date", "now")

base_end_headers(self) == [self EXCEPT !.ended = @ + 1]

send_cors_headers_three(self) ==
    send_header(send_header(send_header(self,
        "Access-Control-Allow-Origin", AllowedOrigin),
        "Access-Control-Allow-Methods", "GET, HEAD, OPTIONS"),
        "Access-Control-Allow-Headers", "Range, If-Modified-Since, Cache-Control")

send_cors_headers_echo(self) ==
    send_header(send_header(send_header(send_header(self,
        "Access-Control-Allow-Origin", self.origin),
        "Access-Control-Allow-Methods", "GET, HEAD, OPTIONS"),
        "Access-Control-Allow-Headers", "Range, If-Modified-Since, Cache-Control"),
        "Access-Control-Expose-Headers", "Content-Length, Content-Range")

send_cors_headers(self) ==
    send_header(send_header(send_header(send_header(self,
        "Access-Control-Allow-Origin", AllowedOrigin),
        "Access-Control-Allow-Methods", "GET, HEAD, OPTIONS"),
        "Access-Control-Allow-Headers", "Range, If-Modified-Since, Cache-Control"),
        "Access-Control-Expose-Headers", "Content-Length, Content-Range")

end_headers(self) == base_end_headers(send_cors_headers(self))

do_OPTIONS_served(self) ==
    [end_headers(send_response(self, 200)) EXCEPT !.body = "file", !.fs = TRUE]

do_OPTIONS(self) ==
    end_headers(send_cors_headers(send_response(self, 204)))

\* SimpleHTTPRequestHandler.send_error as reached for a missing file.
send_error(self, code) ==
    LET h == end_headers(send_header(send_header(send_response(self, code),
                 "Content-Type", "text/html"), "Content-Length", "len"))
    IN  IF self.command = "HEAD" THEN h ELSE [h EXCEPT !.body = "error"]

\* SimpleHTTPRequestHandler.send_head: looks the path up in the served directory.
send_head(self) ==
    LET s == [self EXCEPT !.fs = TRUE]
    IN  IF s.path \in ExistingPaths
        THEN end_headers(send_header(send_header(send_header(send_response(s, 200),
                 "Content-type", "application/dash+xml"), "Content-Length", "len"),
                 "Last-Modified", "mtime"))
        ELSE send_error(s, 404)

do_HEAD(self) == send_head(self)

do_GET(self) ==
    LET h == send_head(self)
    IN  IF self.path \in ExistingPaths THEN [h EXCEPT !.body = "file"] ELSE h

\* BaseHTTPRequestHandler.handle_one_request: dispatch on the request method.
handle_one_request(self) ==
    CASE self.command = "OPTIONS" -> do_OPTIONS(self)
      [] self.command = "GET" -> do_GET(self)
      [] self.command = "HEAD" -> do_HEAD(self)

\* httpd.serve_forever: one request handled to completion.
serve_forever ==
    /\ prog = "server"
    /\ Len(served) < MaxRequests
    /\ \E c \in Commands, p \in Paths, o \in Origins :
          served' = Append(served, handle_one_request(NewHandler(c, p, o)))
    /\ UNCHANGED <<prog, liveionVars, controlVars>>

\* ============================================== str, bytes and JSON values
\* A JSON value: an object (a set of <<key, member>> pairs, members written as
\* JSON text) or any other value (list, number, string, null, true, false).
Obj(fields) == [t |-> "obj", fields |-> fields, s |-> ""]
Atom(s) == [t |-> "atom", fields |-> {}, s |-> s]

\* A str: text that is the serialisation of a JSON value, or any other text.
JsonText(v, form) == [kind |-> "json", v |-> v, s |-> form]
PlainText(s) == [kind |-> "plain", v |-> Atom(""), s |-> s]
None == [kind |-> "None", v |-> Atom(""), s |-> ""]

\* Text holding a lone surrogate (an undecodable argv byte): str.encode raises.
Surrogate == PlainText("<surrogate U+DCFF>")
Encodable(text) == text # Surrogate

\* bytes: the UTF-8 encoding of a str, or bytes that are not valid UTF-8.
encode(text) == [enc |-> "utf8", text |-> text]
InvalidUtf8 == [enc |-> "invalid", text |-> PlainText("ff")]
Decodable(data) == data.enc = "utf8"
decode(data) == data.text

json_dumps(v) == JsonText(v, "dumps")
IsJson(text) == text.kind = "json"
json_loads(text) == text.v

\* Python truth value of a str-or-None option value.
TruthyText(text) == text # None /\ text # PlainText("")

\* dict.get(key): the member, or None ("null") when the key is missing.
HasKey(v, key) == \E f \in v.fields : f[1] = key
get(v, key) == IF HasKey(v, key) THEN (CHOOSE f \in v.fields : f[1] = key)[2] ELSE "null"
FalsyMembers == {"null", "false", "0", "\"\"", "[]", "{}"}
TruthyMember(m) == m \notin FalsyMembers

\* ============================================= tests/udp_control_test.py
PanLeft == Obj({<<"action", "\"pan\"">>, <<"direction", "\"left\"">>, <<"speed", "50">>})
MessageArgs == {None, PlainText(""), PlainText("Hello"), Surrogate}
JsonArgs == {None, PlainText(""), PlainText("{bad"), JsonText(PanLeft, "src"),
             JsonText(Atom("[1]"), "src")}
BinaryArgs == {None, PlainText(""), PlainText("010032"), PlainText("zz")}
StressArgs == {[given |-> FALSE, n |-> 0]} \cup {[given |-> TRUE, n |-> n] : n \in -1..MaxCount}
Intervals == {"nonpositive", "positive", "overflow"}

\* Python truth value of the --stress option (None and 0 are falsy).
TruthyInt(a) == a.given /\ a.n # 0

\* bytes.fromhex
IsHex(text) == text \in {PlainText(""), PlainText("010032")}
fromhex(text) == [enc |-> "hex", text |-> text]

NewCtl == [pc |-> "main", opened |-> 0, closed |-> 0, sent |-> <<>>, out |-> <<>>,
           calls |-> <<>>, i |-> 0, success |-> 0, failed |-> 0,
           exit |-> "none", raised |-> "none", inputs |-> 0]

print_line(c, line) == [c EXCEPT !.out = Append(@, line)]
Called(c, f) == [c EXCEPT !.calls = Append(@, f), !.opened = @ + 1]
Close(c) == [c EXCEPT !.closed = @ + 1]
Sendto(c, data, ok) == [c EXCEPT !.sent = Append(@, [data |-> data, ok |-> ok])]

send_text_message_noclose(c, message, ok) ==
    LET c0 == Called(c, "send_text_message")
    IN  IF ~Encodable(message) THEN print_line(c0, "err_text")
        ELSE IF ok THEN Close(print_line(Sendto(c0, encode(message), TRUE), "ok_text"))
        ELSE print_line(Sendto(c0, encode(message), FALSE), "err_text")

send_text_message(c, message, ok) ==
    LET c0 == Called(c, "send_text_message")
    IN  Close(IF ~Encodable(message) THEN print_line(c0, "err_text")
              ELSE IF ok THEN print_line(Sendto(c0, encode(message), TRUE), "ok_text")
              ELSE print_line(Sendto(c0, encode(message), FALSE), "err_text"))

send_json_message(c, data, ok) ==
    LET c0 == Called(c, "send_json_message")
        message == encode(json_dumps(data))
    IN  Close(IF ok THEN print_line(Sendto(c0, message, TRUE), "ok_json")
              ELSE print_line(Sendto(c0, message, FALSE), "err_json"))

send_binary_message(c, data, ok) ==
    LET c0 == Called(c, "send_binary_message")
    IN  Close(IF ok THEN print_line(Sendto(c0, data, TRUE), "ok_binary")
              ELSE print_line(Sendto(c0, data, FALSE), "err_binary"))

send_ptz_command(c, action, kwargs, ok) ==
    send_json_message(c, Obj({<<"action", action>>} \cup kwargs), ok)

Done(c) == [c EXCEPT !.pc = "done"]
Exit(c, code) == [c EXCEPT !.pc = "done", !.exit = code]

\* main(): the mode dispatch; the single-message modes run to completion.
main(c, a, ok) ==
    IF TruthyText(a.message) THEN Done(send_text_message(c, a.message, ok))
    ELSE IF TruthyText(a.json) THEN
        IF IsJson(a.json) THEN Done(send_json_message(c, json_loads(a.json), ok))
        ELSE Exit(print_line(c, "invalid_json"), "1")
    ELSE IF TruthyText(a.binary) THEN
        IF IsHex(a.binary) THEN Done(send_binary_message(c, fromhex(a.binary), ok))
        ELSE Exit(print_line(c, "invalid_hex"), "1")
    ELSE IF TruthyInt(a.stress) THEN
        [print_line(c, "stress_banner") EXCEPT !.pc = "stress", !.opened = @ + 1,
                                          !.calls = Append(@, "stress_test")]
    ELSE IF a.interactive THEN
        [print_line(c, "interactive_banner") EXCEPT !.pc = "interactive",
                                               !.calls = Append(@, "interactive_mode")]
    ELSE Done(print_line(c, "examples"))

control_main ==
    /\ prog = "control"
    /\ ctl.pc = "main"
    /\ \E ok \in BOOLEAN : ctl' = main(ctl, args, ok)
    /\ UNCHANGED <<prog, serverVars, liveionVars, args>>

Quote(s) == "\"" \o s \o "\""

\* stress_test: one pass through the body of `for i in range(count)`.
stress_iteration_abort(c, a, ok) ==
    LET message == json_dumps(Obj({<<"seq", ToString(c.i)>>, <<"timestamp", "now">>}))
        c1 == Sendto(c, encode(message), ok)
    IN  IF ok THEN [c1 EXCEPT !.success = @ + 1, !.i = @ + 1]
        ELSE [Close(print_line(c1, "failed_line")) EXCEPT !.failed = @ + 1, !.pc = "done",
                                                          !.raised = "OSError"]

stress_iteration(c, a, ok) ==
    LET message == json_dumps(Obj({<<"seq", ToString(c.i)>>, <<"timestamp", "now">>}))
        c1 == Sendto(c, encode(message), ok)
        c2 == IF ok
              THEN IF (c.i + 1) % 100 = 0
                   THEN print_line([c1 EXCEPT !.success = @ + 1], "progress")
                   ELSE [c1 EXCEPT !.success = @ + 1]
              ELSE print_line([c1 EXCEPT !.failed = @ + 1], "failed_line")
    IN  IF a.interval = "overflow"
        THEN [Close(c2) EXCEPT !.pc = "done", !.raised = "OverflowError"]
        ELSE [c2 EXCEPT !.i = @ + 1]

\* stress_test: range(count) is exhausted; the socket is closed and the results printed.
stress_results(c, a) ==
    LET c1 == print_line(print_line(Close(c), "results"), "success_failed")
    IN  IF a.stress.n = 0 THEN [c1 EXCEPT !.pc = "done", !.raised = "ZeroDivisionError"]
        ELSE Done(print_line(c1, "success_rate"))

control_stress_iteration ==
    /\ prog = "control"
    /\ ctl.pc = "stress"
    /\ ctl.i < args.stress.n
    /\ \E ok \in BOOLEAN : ctl' = stress_iteration(ctl, args, ok)
    /\ UNCHANGED <<prog, serverVars, liveionVars, args>>

control_stress_results ==
    /\ prog = "control"
    /\ ctl.pc = "stress"
    /\ ctl.i >= args.stress.n
    /\ ctl' = stress_results(ctl, args)
    /\ UNCHANGED <<prog, serverVars, liveionVars, args>>

\* One outcome of input("udp> "): a line, split into command and argument, or
\* an exception raised by input().
Line(command, arg) == [ev |-> "line", command |-> command, arg |-> arg]
InteractiveInputs ==
    {Line("", None), Line("quit", None), Line("foo", None), Line("text", None),
     Line("text", PlainText("hi")),
     Line("json", JsonText(PanLeft, "src")), Line("json", PlainText("{bad")),
     Line("pan", PlainText("left")), Line("pan", PlainText("up")),
     Line("tilt", PlainText("up")), Line("tilt", PlainText("left")),
     Line("zoom", PlainText("in")), Line("zoom", PlainText("left")),
     [ev |-> "KeyboardInterrupt", command |-> "", arg |-> None],
     [ev |-> "EOFError", command |-> "", arg |-> None]}

\* interactive_mode: one pass through the body of `while True`.
interactive_mode(c, in, ok) ==
    LET c0 == [c EXCEPT !.inputs = @ + 1]
        has == in.arg # None
        ptz(action, allowed, kw, bad) ==
            IF in.arg.s \in allowed
            THEN send_ptz_command(c0, Quote(action),
                                  {<<"direction", Quote(in.arg.s)>>, kw}, ok)
            ELSE print_line(c0, bad)
    IN  IF in.ev = "KeyboardInterrupt" THEN Done(print_line(c0, "exiting"))
        ELSE IF in.ev = "EOFError" THEN print_line(c0, "error")
        ELSE IF in.command = "" THEN c0
        ELSE IF in.command = "quit" THEN Done(c0)
        ELSE IF in.command = "text" /\ has THEN send_text_message(c0, in.arg, ok)
        ELSE IF in.command = "json" /\ has THEN
            IF IsJson(in.arg) THEN send_json_message(c0, json_loads(in.arg), ok)
            ELSE print_line(c0, "invalid_json")
        ELSE IF in.command = "pan" /\ has THEN
            ptz("pan", {"left", "right"}, <<"speed", "50">>, "invalid_direction")
        ELSE IF in.command = "tilt" /\ has THEN
            ptz("tilt", {"up", "down"}, <<"speed", "50">>, "invalid_direction")
        ELSE IF in.command = "zoom" /\ has THEN
            ptz("zoom", {"in", "out"}, <<"value", "1">>, "invalid_direction")
        ELSE print_line(c0, "unknown_command")

control_interactive ==
    /\ prog = "control"
    /\ ctl.pc = "interactive"
    /\ ctl.inputs < MaxCommands
    /\ \E in \in InteractiveInputs, ok \in BOOLEAN : ctl' = interactive_mode(ctl, in, ok)
    /\ UNCHANGED <<prog, serverVars, liveionVars, args>>

ArgSets == [message : MessageArgs, json : JsonArgs, binary : BinaryArgs,
            stress : StressArgs, interactive : BOOLEAN, interval : Intervals]
NoArgs == [message |-> None, json |-> None, binary |-> None,
           stress |-> [given |-> FALSE, n |-> 0], interactive |-> FALSE,
           interval |-> "positive"]

\* ==================================================== test_liveion_udp.py
Bridge == "localhost:8888"
SelfAddr == "localhost:8889"
PeerAddr == "peer:8889"

Lower(s) == CASE s = "QUIT" -> "quit" [] s = "BOTH" -> "both" [] OTHER -> s
Strip(s) == IF s = "  " THEN "" ELSE s

Argv1 == {"absent", "listen", "send", "test", "both", "BOTH", "bogus"}

\* A udp_listener activation that has not been called.
IdleListener == [pc |-> "idle", thread |-> "none", sock |-> 0, sockState |-> "none",
                 sent |-> <<>>, nrecv |-> 0, out |-> <<>>, exit |-> "none"]
IdleSender == [pc |-> "idle", kind |-> "none", sock |-> 0, sockState |-> "none",
               nsent |-> 0, last |-> InvalidUtf8, inputs |-> 0, i |-> 0,
               raised |-> "none"]

register_msg == Obj({<<"action", "\"register\"">>, <<"client_id", "\"listener_8889\"">>,
                     <<"timestamp", "now">>})

\* udp_listener up to the bind: the socket is created and bound to localhost:8889.
udp_listener_bind(l, id, ok) ==
    IF ok THEN [l EXCEPT !.sock = id, !.sockState = "open", !.pc = "register",
                         !.out = <<"started">>]
    ELSE [l EXCEPT !.sock = id, !.sockState = "open", !.pc = "dead",
                   !.exit = "bind:OSError"]

\* udp_listener: the registration message, sent to the bridge inside try/except.
udp_listener_register(l, ok) ==
    [l EXCEPT !.sent = Append(@, [data |-> encode(json_dumps(register_msg)),
                                  to |-> Bridge, ok |-> ok]),
              !.out = IF ok THEN <<"registered">> ELSE <<"registration_failed">>,
              !.pc = "recv"]

response_echo(action) == Obj({<<"type", "\"response\"">>, <<"action", action>>,
                              <<"status", "\"received\"">>, <<"timestamp", "now">>})

response(action) == Obj({<<"type", "\"response\"">>, <<"original_action", action>>,
                         <<"status", "\"received\"">>, <<"timestamp", "now">>})

Raise(l, out, e) == [l EXCEPT !.out = out, !.pc = "dead", !.exit = e,
                              !.sockState = "closed"]

\* udp_listener: one pass through the body of `while True`, for the datagram
\* d = [data, from] returned by recvfrom.
udp_listener_receive(l, d, ok) ==
    LET l0 == [l EXCEPT !.nrecv = @ + 1]
    IN  IF ~Decodable(d.data) THEN Raise(l0, <<>>, "loop:UnicodeDecodeError")
        ELSE LET message == decode(d.data) IN
             IF ~IsJson(message) THEN [l0 EXCEPT !.out = <<"received", "raw">>]
             ELSE LET json_data == json_loads(message) IN
                  IF json_data.t # "obj"
                  THEN Raise(l0, <<"received", "parsed">>, "loop:AttributeError")
                  ELSE IF TruthyMember(get(json_data, "action"))
                  THEN LET l1 == [l0 EXCEPT !.sent = Append(@,
                                     [data |-> encode(json_dumps(response(get(json_data, "action")))),
                                      to |-> d.from, ok |-> ok])]
                       IN  IF ok THEN [l1 EXCEPT !.out = <<"received", "parsed", "sent">>]
                           ELSE Raise(l1, <<"received", "parsed">>, "loop:OSError")
                  ELSE [l0 EXCEPT !.out = <<"received", "parsed">>]

\* udp_listener: KeyboardInterrupt raised in the thread that runs it.
udp_listener_interrupt(l) ==
    IF l.pc = "recv"
    THEN [l EXCEPT !.pc = "stopped", !.exit = "loop:KeyboardInterrupt",
                   !.sockState = "closed", !.out = <<"stopping">>]
    ELSE [l EXCEPT !.pc = "dead", !.exit = "setup:KeyboardInterrupt"]

ListenerRunning(l) == l.pc \in {"bind", "register", "recv"}

\* One outcome of input("Send message> "): a line, or EOFError on a closed stdin.
SenderInputs ==
    {[ev |-> "line", text |-> t] :
        t \in {PlainText("quit"), PlainText("QUIT"), PlainText(""), PlainText("  "),
               PlainText("hello"), PlainText("{bad"), JsonText(PanLeft, "src"),
               JsonText(Atom("[1]"), "src")}}
    \cup {[ev |-> "EOFError", text |-> None]}

IsQuit(text) == text.kind = "plain" /\ Lower(text.s) = "quit"
IsBlank(text) == text.kind = "plain" /\ Strip(text.s) = ""
StartsWithBrace(text) == IF text.kind = "json" THEN text.v.t = "obj" ELSE text.s = "{bad"
Content(text) == IF text.kind = "json" THEN Quote(text.v.s) ELSE Quote(text.s)
test_msg(text) == Obj({<<"type", "\"test_message\"">>, <<"content", Content(text)>>,
                       <<"timestamp", "now">>})

\* udp_sender up to the loop: a socket of its own is created.
udp_sender_start(id) ==
    [IdleSender EXCEPT !.pc = "input", !.kind = "udp_sender", !.sock = id,
                       !.sockState = "open"]

SenderEnd(s, e) == [s EXCEPT !.pc = "done", !.sockState = "closed", !.raised = e]

\* udp_sender: one pass through the body of `while True`.
udp_sender(s, in, ok) ==
    LET s0 == [s EXCEPT !.inputs = @ + 1]
        message == in.text
        data == IF StartsWithBrace(message) THEN encode(message)
                ELSE encode(json_dumps(test_msg(message)))
    IN  IF in.ev = "EOFError" THEN SenderEnd(s0, "EOFError")
        ELSE IF IsQuit(message) THEN SenderEnd(s0, "none")
        ELSE IF IsBlank(message) THEN s0
        ELSE IF ok THEN [s0 EXCEPT !.nsent = @ + 1, !.last = data]
        ELSE SenderEnd(s0, "OSError")

test_commands ==
    << Obj({<<"action", "\"pan\"">>, <<"direction", "\"left\"">>, <<"speed", "50">>}),
       Obj({<<"action", "\"pan\"">>, <<"direction", "\"right\"">>, <<"speed", "50">>}),
       Obj({<<"action", "\"tilt\"">>, <<"direction", "\"up\"">>, <<"speed", "30">>}),
       Obj({<<"action", "\"tilt\"">>, <<"direction", "\"down\"">>, <<"speed", "30">>}),
       Obj({<<"action", "\"zoom\"">>, <<"direction", "\"in\"">>, <<"value", "1">>}),
       Obj({<<"action", "\"zoom\"">>, <<"direction", "\"out\"">>, <<"value", "1">>}),
       Obj({<<"action", "\"stop\"">>}),
       Obj({<<"action", "\"preset\"">>, <<"number", "1">>}),
       Obj({<<"action", "\"custom\"">>, <<"value", "123">>, <<"message", "\"test\"">>}) >>

send_test_commands_start(id) ==
    [IdleSender EXCEPT !.pc = "loop", !.kind = "send_test_commands", !.sock = id,
                       !.sockState = "open"]

\* send_test_commands: one command of the sequence, or the end of the sequence.
send_test_commands(s, ok) ==
    IF s.i < Len(test_commands)
    THEN IF ok THEN [s EXCEPT !.i = @ + 1, !.nsent = @ + 1,
                              !.last = encode(json_dumps(test_commands[s.i + 1]))]
         ELSE [s EXCEPT !.pc = "done", !.raised = "OSError"]
    ELSE [s EXCEPT !.pc = "done", !.sockState = "closed"]

\* threading.Thread(target=udp_listener, daemon=True)
listener_thread_nondaemon == [target |-> "udp_listener", daemon |-> FALSE]
listener_thread == [target |-> "udp_listener", daemon |-> TRUE]

\* main(): the mode dispatch, up to the call of the chosen function.
liveion_main ==
    /\ prog = "liveion" /\ ~exited /\ mainpc = "start"
    /\ LET mode == Lower(argv1) IN
       CASE argv1 = "absent" ->
              /\ mainpc' = "returned"
              /\ UNCHANGED <<threads, socks, lis, snd>>
         [] argv1 # "absent" /\ mode = "listen" ->
              /\ mainpc' = "udp_listener"
              /\ lis' = [lis EXCEPT !.pc = "bind", !.thread = "main"]
              /\ UNCHANGED <<threads, socks, snd>>
         [] argv1 # "absent" /\ mode = "send" ->
              /\ mainpc' = "udp_sender"
              /\ snd' = udp_sender_start(socks + 1)
              /\ socks' = socks + 1
              /\ UNCHANGED <<threads, lis>>
         [] argv1 # "absent" /\ mode = "test" ->
              /\ mainpc' = "send_test_commands"
              /\ snd' = send_test_commands_start(socks + 1)
              /\ socks' = socks + 1
              /\ UNCHANGED <<threads, lis>>
         [] argv1 # "absent" /\ mode = "both" ->
              /\ threads' = Append(threads, listener_thread)
              /\ lis' = [lis EXCEPT !.pc = "bind", !.thread = "background"]
              /\ mainpc' = "sleep"
              /\ UNCHANGED <<socks, snd>>
         [] OTHER ->
              /\ mainpc' = "returned"
              /\ UNCHANGED <<threads, socks, lis, snd>>
    /\ UNCHANGED <<prog, serverVars, controlVars, argv1, exited, peer, net>>

\* main(), mode 'both': time.sleep(1) is over and udp_sender is called.
liveion_both_sender ==
    /\ prog = "liveion" /\ ~exited /\ mainpc = "sleep"
    /\ mainpc' = "udp_sender"
    /\ snd' = udp_sender_start(socks + 1)
    /\ socks' = socks + 1
    /\ UNCHANGED <<prog, serverVars, controlVars, argv1, threads, exited, lis, peer, net>>

\* What the main thread does once the listener it runs itself has ended.
MainAfterListener(l) == IF l.thread = "main" /\ ~ListenerRunning(l) THEN "returned" ELSE mainpc

listener_bind ==
    /\ prog = "liveion" /\ ~exited /\ lis.pc = "bind"
    /\ \E ok \in BOOLEAN : lis' = udp_listener_bind(lis, socks + 1, ok)
    /\ socks' = socks + 1
    /\ mainpc' = MainAfterListener(lis')
    /\ UNCHANGED <<prog, serverVars, controlVars, argv1, threads, exited, snd, peer, net>>

listener_register ==
    /\ prog = "liveion" /\ ~exited /\ lis.pc = "register"
    /\ \E ok \in BOOLEAN : lis' = udp_listener_register(lis, ok)
    /\ UNCHANGED <<prog, serverVars, controlVars, argv1, mainpc, threads, exited, socks,
                   snd, peer, net>>

\* The reply, if any, that the last pass of a listener put on the wire.
Replies(before, after, from) ==
    IF Len(after.sent) > Len(before.sent) /\ after.sent[Len(after.sent)].ok
    THEN <<[data |-> after.sent[Len(after.sent)].data, from |-> from]>>
    ELSE <<>>

listener_receive ==
    /\ prog = "liveion" /\ ~exited /\ lis.pc = "recv" /\ net.self # <<>>
    /\ \E ok \in BOOLEAN :
          /\ lis' = udp_listener_receive(lis, Head(net.self), ok)
          /\ net' = [net EXCEPT !.self = Tail(@),
                                !.peer = IF Head(net.self).from = PeerAddr
                                         THEN @ \o Replies(lis, lis', SelfAddr) ELSE @]
    /\ mainpc' = MainAfterListener(lis')
    /\ UNCHANGED <<prog, serverVars, controlVars, argv1, threads, exited, socks, snd, peer>>

\* The listener of the second process handles a datagram; a reply addressed to
\* this process is queued at the local listener's socket while that is open.
peer_receive ==
    /\ prog = "liveion" /\ peer.pc = "recv" /\ net.peer # <<>>
    /\ \E ok \in BOOLEAN :
          /\ peer' = udp_listener_receive(peer, Head(net.peer), ok)
          /\ net' = [net EXCEPT !.peer = Tail(@),
                                !.self = IF Head(net.peer).from = SelfAddr
                                            /\ lis.sockState = "open" /\ ~exited
                                         THEN @ \o Replies(peer, peer', PeerAddr) ELSE @]
    /\ UNCHANGED <<prog, serverVars, controlVars, argv1, mainpc, threads, exited, socks,
                   lis, snd>>

\* Datagrams that can arrive at the listener's socket.
Payloads ==
    {InvalidUtf8,
     encode(PlainText("hello")),
     encode(JsonText(Atom("[1]"), "src")),
     encode(JsonText(PanLeft, "src")),
     encode(JsonText(Obj({<<"action", "\"\"">>, <<"type", "\"x\"">>}), "src")),
     encode(json_dumps(response("\"pan\"")))}
\* Datagrams that arrive at the local listener: any payload relayed by the
\* bridge, and a control command whose source address is the second listener.
Arrivals ==
    {[data |-> d, from |-> Bridge] : d \in Payloads}
    \cup {[data |-> encode(JsonText(PanLeft, "src")), from |-> PeerAddr]}
\* A datagram arrives while the listener's socket is bound and open.
datagram_arrives ==
    /\ prog = "liveion" /\ ~exited
    /\ lis.pc \in {"register", "recv"}
    /\ net.injected < MaxDatagrams
    /\ \E d \in Arrivals :
          net' = [net EXCEPT !.self = Append(@, d), !.injected = @ + 1]
    /\ UNCHANGED <<prog, serverVars, controlVars, argv1, mainpc, threads, exited, socks,
                   lis, snd, peer>>

sender_input ==
    /\ prog = "liveion" /\ ~exited /\ mainpc = "udp_sender"
    /\ snd.pc = "input" /\ snd.inputs < MaxInputs
    /\ \E in \in SenderInputs, ok \in BOOLEAN : snd' = udp_sender(snd, in, ok)
    /\ mainpc' = IF snd'.pc = "done" THEN "returned" ELSE mainpc
    /\ UNCHANGED <<prog, serverVars, controlVars, argv1, threads, exited, socks, lis,
                   peer, net>>

test_command ==
    /\ prog = "liveion" /\ ~exited /\ mainpc = "send_test_commands"
    /\ snd.pc = "loop"
    /\ \E ok \in BOOLEAN : snd' = send_test_commands(snd, ok)
    /\ mainpc' = IF snd'.pc = "done" THEN "returned" ELSE mainpc
    /\ UNCHANGED <<prog, serverVars, controlVars, argv1, threads, exited, socks, lis,
                   peer, net>>

\* Ctrl+C: KeyboardInterrupt is raised in the main thread, wherever it is.
keyboard_interrupt ==
    /\ prog = "liveion" /\ ~exited
    /\ mainpc \in {"sleep", "udp_listener", "udp_sender", "send_test_commands"}
    /\ mainpc' = "returned"
    /\ lis' = IF mainpc = "udp_listener" THEN udp_listener_interrupt(lis) ELSE lis
    /\ snd' = CASE mainpc = "udp_sender" -> SenderEnd(snd, "none")
                [] mainpc = "send_test_commands" ->
                      [snd EXCEPT !.pc = "done", !.raised = "KeyboardInterrupt"]
                [] OTHER -> snd
    /\ UNCHANGED <<prog, serverVars, controlVars, argv1, threads, exited, socks, peer, net>>

\* The threads the interpreter waits for before it exits.
Joined == \A k \in 1..Len(threads) : threads[k].daemon \/ ~ListenerRunning(lis)

\* The main thread is over: the interpreter exits once every non-daemon thread
\* has ended; daemon threads are abandoned.
interpreter_exit ==
    /\ prog = "liveion" /\ ~exited /\ mainpc = "returned"
    /\ Joined
    /\ exited' = TRUE
    /\ UNCHANGED <<prog, serverVars, controlVars, argv1, mainpc, threads, socks, lis, snd,
                   peer, net>>

\* ============================================================ specification
PeerListener ==
    [udp_listener_register(udp_listener_bind(IdleListener, 1, TRUE), TRUE)
        EXCEPT !.thread = "main"]

Init ==
    /\ prog \in {"server", "liveion", "control"}
    /\ served = <<>>
    /\ argv1 \in (IF prog = "liveion" THEN Argv1 ELSE {"absent"})
    /\ mainpc = "start"
    /\ threads = <<>>
    /\ exited = FALSE
    /\ socks = 0
    /\ lis = IdleListener
    /\ snd = IdleSender
    /\ peer = PeerListener
    /\ net = [self |-> <<>>, peer |-> <<>>, injected |-> 0]
    /\ args \in (IF prog = "control" THEN ArgSets ELSE {NoArgs})
    /\ ctl = NewCtl

Next ==
    \/ serve_forever
    \/ control_main
    \/ control_stress_iteration
    \/ control_stress_results
    \/ control_interactive
    \/ liveion_main
    \/ liveion_both_sender
    \/ listener_bind
    \/ listener_register
    \/ listener_receive
    \/ peer_receive
    \/ datagram_arrives
    \/ sender_input
    \/ test_command
    \/ keyboard_interrupt
    \/ interpreter_exit

Spec == Init /\ [][Next]_vars

\* ================================================== properties: server.py
Outcome(h) == [status |-> h.status, headers |-> h.headers, ended |-> h.ended,
               body |-> h.body]
HeaderNames(h) == {h.headers[i][1] : i \in 1..Len(h.headers)}
HeaderPairs(h) == {h.headers[i] : i \in 1..Len(h.headers)}
HeaderCount(h, name) == Cardinality({i \in 1..Len(h.headers) : h.headers[i][1] = name})
BaseHeaderNames == {"Server", "Date", "Content-type", "Content-Type", "Content-Length",
                    "Last-Modified"}
CorsHeaderNames == {"Access-Control-Allow-Origin", "Access-Control-Allow-Methods",
                    "Access-Control-Allow-Headers", "Access-Control-Expose-Headers"}
Injected(h) == {p \in HeaderPairs(h) : p[1] \notin BaseHeaderNames}
InjectedNames(h) == HeaderNames(h) \ BaseHeaderNames
Requests == 1..Len(served)

C2_ThreeInjectedHeaders ==
    \A k \in Requests :
        /\ Cardinality(InjectedNames(served[k])) = 3
        /\ \A j \in Requests : Injected(served[j]) = Injected(served[k])

\* C2 (amended): the handler adds exactly four header names to every response
\* (Access-Control-Allow-Origin, -Allow-Methods, -Allow-Headers and
\* -Expose-Headers), with values that do not depend on the request.
C2_FourInjectedHeaders ==
    \A k \in Requests :
        /\ Cardinality(InjectedNames(served[k])) = 4
        /\ InjectedNames(served[k]) = CorsHeaderNames
        /\ \A j \in Requests : Injected(served[j]) = Injected(served[k])

C2_Witness ==
    /\ Len(served) = 2
    /\ served[1].command = "OPTIONS"
    /\ served[2].command = "GET" /\ served[2].status = <<404>>
    /\ served[1].origin # served[2].origin

\* C3: every OPTIONS request, for any path and any Origin, gets exactly one
\* response, with status 204, whose header block is ended exactly once, with
\* no body and without the file system being touched.
C3_PreflightIs204 ==
    \A k \in Requests :
        served[k].command = "OPTIONS" =>
            /\ served[k].status = <<204>>
            /\ served[k].ended = 1
            /\ served[k].body = "none"
            /\ ~served[k].fs

C3_Witness ==
    /\ Len(served) = 2
    /\ served[1].command = "OPTIONS" /\ served[1].path = "/a.mpd"
    /\ served[2].command = "OPTIONS" /\ served[2].path = "/missing"

\* C9: in every response, the 204 answer to OPTIONS included, each of the four
\* CORS header names is written exactly once.
C9_EachCorsHeaderOnce ==
    \A k \in Requests :
        \A name \in CorsHeaderNames : HeaderCount(served[k], name) = 1

\* ======================================= properties: udp_control_test.py
SendFunctions == {"send_text_message", "send_json_message", "send_binary_message"}
SuccessLine(f) == CASE f = "send_text_message" -> "ok_text"
                    [] f = "send_json_message" -> "ok_json"
                    [] f = "send_binary_message" -> "ok_binary"
ErrorLine(f) == CASE f = "send_text_message" -> "err_text"
                  [] f = "send_json_message" -> "err_json"
                  [] f = "send_binary_message" -> "err_binary"

\* A step in which function f was called and ran to its end.
CallOf(f) == ctl'.calls = Append(ctl.calls, f)

\* C5: each call of send_text_message, send_json_message or send_binary_message,
\* whatever its outcome (sent, encoding raised, sendto raised), attempts at
\* most one datagram, prints exactly one line - the success line when the
\* datagram went out, the error line otherwise - closes the socket it opened
\* and returns without an exception reaching its caller.
C5_SendErrorIsPrintedAndSwallowed ==
    [][\A f \in SendFunctions :
          CallOf(f) =>
              /\ Len(ctl'.sent) - Len(ctl.sent) \in {0, 1}
              /\ \/ /\ ctl'.out = Append(ctl.out, SuccessLine(f))
                    /\ ctl'.sent = Append(ctl.sent, ctl'.sent[Len(ctl'.sent)])
                    /\ ctl'.sent[Len(ctl'.sent)].ok
                 \/ /\ ctl'.out = Append(ctl.out, ErrorLine(f))
                    /\ \/ ctl'.sent = ctl.sent
                       \/ /\ Len(ctl'.sent) = Len(ctl.sent) + 1
                          /\ ~ctl'.sent[Len(ctl'.sent)].ok
              /\ ctl'.opened = ctl.opened + 1
              /\ ctl'.closed = ctl.closed + 1
              /\ ctl'.opened = ctl'.closed
              /\ ctl'.raised = "none"
              /\ ctl'.exit = "none"]_vars

\* Encoding raised: the error line is printed, nothing is sent, the socket is closed.
C5_Witness ==
    /\ ctl.calls = <<"send_text_message">>
    /\ ctl.sent = <<>>
    /\ ctl.out = <<"err_text">>
    /\ ctl.closed = 1
    /\ ctl.pc = "done"

\* C6: whenever --message is supplied, with any (encodable) string value and
\* whatever the other options, the tool sends that one text message and exits:
\* one datagram carrying the UTF-8 encoding of the message, and no other mode.
C6_MessageAlwaysSendsText ==
    (prog = "control" /\ args.message # None /\ Encodable(args.message)
        /\ ctl.pc # "main") =>
        /\ ctl.pc = "done"
        /\ ctl.calls = <<"send_text_message">>
        /\ Len(ctl.sent) = 1
        /\ ctl.sent[1].data = encode(args.message)

StressRun == prog = "control" /\ ctl.calls = <<"stress_test">>
Max(a, b) == IF a > b THEN a ELSE b
\* The seq member of the payload of an attempt.
SeqOf(attempt) == get(json_loads(decode(attempt.data)), "seq")
Oks(sent) == Cardinality({k \in 1..Len(sent) : sent[k].ok})

Mode == Lower(argv1)
IsListenerThread(t) == t.target = "udp_listener" /\ t.daemon

\* The background listener has just ended (bind failure or an exception).
ListenerDies ==
    /\ lis.thread = "background"
    /\ ListenerRunning(lis)
    /\ ~ListenerRunning(lis')

\* C4: no mode but 'both' starts a thread; 'both' starts exactly one daemon
\* thread, running udp_listener, before udp_sender runs in the main thread;
\* listener and sender never use the same socket; once the main thread has
\* returned nothing keeps the interpreter from exiting, even while the listener
\* is still in its loop; and the end of the listener thread changes nothing in
\* the sender or the main thread.
C4_SingleBackgroundListener ==
    /\ [](prog = "liveion" =>
            /\ Len(threads) <= 1
            /\ \A k \in 1..Len(threads) : IsListenerThread(threads[k])
            /\ Mode \in {"listen", "send", "test"} => threads = <<>>
            /\ (Mode = "both" /\ mainpc # "start") => Len(threads) = 1
            /\ lis.thread = "background" <=> threads # <<>>
            /\ (snd.kind = "udp_sender" /\ Mode = "both") =>
                   (Len(threads) = 1 /\ lis.thread = "background")
            /\ (snd.sock # 0 /\ lis.sock # 0) => snd.sock # lis.sock
            /\ mainpc = "returned" => Joined)
    /\ [][ListenerDies => (snd' = snd /\ mainpc' = mainpc /\ exited' = exited)]_vars

\* The sender quit and the interpreter exited while the background listener
\* was still waiting in recvfrom.
C4_Witness ==
    /\ Mode = "both" /\ exited
    /\ lis.thread = "background" /\ lis.pc = "recv"
    /\ snd.pc = "done" /\ snd.raised = "none" /\ snd.sockState = "closed"
    /\ snd.sock # 0 /\ lis.sock # 0

\* C8: no datagram payload ends the receive loop - after any received datagram
\* (reply sent, if one was due) the listener has printed it as parsed or raw
\* and is back at recvfrom; only a keyboard interrupt ends the loop, and then
\* the socket is closed.
C8_ListenerSurvivesEveryDatagram ==
    /\ (lis.nrecv > 0 /\ lis.exit \notin {"loop:KeyboardInterrupt", "loop:OSError"}) =>
          /\ lis.pc = "recv"
          /\ \E k \in 1..Len(lis.out) : lis.out[k] \in {"parsed", "raw"}
    /\ lis.exit = "loop:KeyboardInterrupt" => lis.sockState = "closed"

\* "parses as JSON with a truthy 'action' field"
HasTruthyAction(data) ==
    /\ Decodable(data)
    /\ IsJson(decode(data))
    /\ json_loads(decode(data)).t = "obj"
    /\ TruthyMember(get(json_loads(decode(data)), "action"))

Registration == [data |-> encode(json_dumps(register_msg)), to |-> Bridge]
IsRegistration(m) == m.data = Registration.data /\ m.to = Registration.to
\* A confirmation: 'original_action' present, no 'action'.
IsConfirmation(data) ==
    /\ Decodable(data) /\ IsJson(decode(data))
    /\ HasKey(json_loads(decode(data)), "original_action")
    /\ ~HasKey(json_loads(decode(data)), "action")

ListenerSends(l) ==
    /\ l.pc \in {"idle", "bind"} => (l.sent = <<>> /\ l.nrecv = 0)
    /\ l.nrecv > 0 => Len(l.sent) >= 1
    /\ l.pc \in {"recv", "stopped"} => Len(l.sent) >= 1
    /\ Len(l.sent) >= 1 => IsRegistration(l.sent[1])
    /\ Len(l.sent) <= 1 + l.nrecv
    /\ \A k \in 2..Len(l.sent) :
          /\ ~IsRegistration(l.sent[k])
          /\ IsConfirmation(l.sent[k].data)
          /\ ~HasTruthyAction(l.sent[k].data)

\* What a listener sends while handling the datagram d.
RepliesTo(before, after, d) ==
    IF HasTruthyAction(d.data)
    THEN /\ Len(after.sent) = Len(before.sent) + 1
         /\ after.sent[Len(after.sent)].to = d.from
         /\ after.sent[Len(after.sent)].data =
               encode(json_dumps(response(get(json_loads(decode(d.data)), "action"))))
         /\ \A k \in 1..Len(before.sent) : after.sent[k] = before.sent[k]
    ELSE after.sent = before.sent

\* C10: the listener sends the registration to port 8888 exactly once, before
\* its first receive; after that it sends only replies - for each received
\* datagram that parses as JSON with a truthy 'action' exactly one
\* confirmation, to the datagram's source address, and nothing for any other
\* datagram; a confirmation has no 'action', so a listener that receives one
\* sends nothing, and the second listener never answers the first one's replies.
C10_RegistrationThenRepliesOnly ==
    /\ [](prog = "liveion" =>
            /\ ListenerSends(lis)
            /\ ListenerSends(peer)
            /\ \A k \in 1..Len(net.peer) : ~HasTruthyAction(net.peer[k].data)
            /\ Len(peer.sent) = 1)
    /\ [][/\ lis'.nrecv = lis.nrecv + 1 => RepliesTo(lis, lis', Head(net.self))
          /\ lis'.nrecv = lis.nrecv => \/ lis'.sent = lis.sent
                                       \/ /\ lis.pc = "register"
                                          /\ lis.sent = <<>>
                                          /\ Len(lis'.sent) = 1
          /\ peer'.nrecv = peer.nrecv + 1 => RepliesTo(peer, peer', Head(net.peer))
          /\ peer'.nrecv = peer.nrecv => peer'.sent = peer.sent]_vars

\* The listener confirmed a command to the second listener, which received
\* the confirmation and sent nothing; the listener itself received a
\* confirmation and sent nothing.
C10_Witness ==
    /\ Len(lis.sent) = 2 /\ lis.sent[2].to = PeerAddr /\ lis.nrecv = 2
    /\ lis.pc = "recv"
    /\ peer.nrecv = 1 /\ Len(peer.sent) = 1 /\ peer.pc = "recv"

====
